---- MODULE Spec2Model ----
(***************************************************************************)
(* Model of the AdaSure Pro accessibility widget's tool engine:            *)
(*   - the CSS compiler  (utils/cssGenerator: generateCSS,                 *)
(*     wrapCSSToSelector, generateCSSFromConfig),                          *)
(*   - the style injector (injectToolCSS, addStylesheet),                  *)
(*   - the contrast tool  (tools/enableContrast over enum/Filters),        *)
(*   - the font-size tool (tools/adjustFontSize) and the readable-font     *)
(*     tool (tools/readableFont),                                          *)
(* and of the services around it: the SecurityManager's rate limiter and   *)
(* event log, the start-up of the widget (entry.ts), the CloudflareAuth    *)
(* session, ComplianceReporting's feature tracking and the SendPulse       *)
(* access-token cache.                                                     *)
(*                                                                         *)
(* CSS text is a sequence of tokens; the token " " is white space, so that *)
(* String.prototype.trim is modelled by what it does (Trim strips leading  *)
(* and trailing white-space tokens).  Pixel sizes are kept in hundredths   *)
(* of a pixel and multipliers in tenths, so 16px * 0.1 is                  *)
(* (1600 * 1) \div 10 = 160, and every product of the model is exact.      *)
(***************************************************************************)
EXTENDS Integers, Sequences, FiniteSets, TLC

VARIABLES
    styleEls,      \* per element id: the texts of the <style> elements with that id,
                   \* in document order
    rootClasses,   \* document.documentElement.classList
    keyGlobal,     \* what the free identifier `key` resolves to on the host page
    fontAuthor,    \* per element: font size given by the page (1/100 px), or Inherit
    fontInline,    \* per element: el.style font-size written by the widget, or NoValue
    orgCache,      \* per element: el.dataset.aswOrgFontSize, or NoValue
    fontMultiplier,\* document.documentElement.dataset.aswFontMultiplier, or NoValue
    last,          \* history: the most recent call, its arguments and its outcome
    compIn,        \* the configuration handed to the CSS compiler
    compiled,      \* what the compiler returned for compIn, once it ran
    docCtx,        \* whether the script runs where the global `document` exists
    clock,         \* Date.now(), in milliseconds
    storage,       \* the entries of localStorage and sessionStorage the services use
    securityManager, \* SecurityManager: config and requestCounts
    boot,          \* entry.ts: document.readyState, listeners, timers, window.SiennaPlugin
    cloudflareAuth,\* CloudflareAuth: sessionToken and the requests in flight
    compliance,    \* ComplianceReporting: features and sessionMetrics
    sendPulse,     \* SendPulseManager: accessToken, tokenExpiry, requests in flight
    ret            \* history: the most recent service call, its arguments and outcome

svcVars == <<clock, storage, securityManager, boot, cloudflareAuth, compliance,
             sendPulse, ret>>

toolVars == <<styleEls, rootClasses, keyGlobal, fontAuthor, fontInline, orgCache,
              fontMultiplier, last, compIn, compiled, docCtx>>

vars == <<styleEls, rootClasses, keyGlobal, fontAuthor, fontInline, orgCache,
          fontMultiplier, last, compIn, compiled, docCtx,
          clock, storage, securityManager, boot, cloudflareAuth, compliance,
          sendPulse, ret>>

cssVars  == <<styleEls, rootClasses>>
fontVars == <<fontInline, orgCache, fontMultiplier>>
compVars == <<compIn, compiled>>

(***************************************************************************)
(* Bounds of the model.                                                    *)
(***************************************************************************)
MaxRepeat == 2      \* consecutive identical calls that the history tells apart
MaxStyles == 2      \* properties in a styles map handed to the compiler

(***************************************************************************)
(* Generic helpers.                                                        *)
(***************************************************************************)
Has(c, f) == f \in DOMAIN c

Min(a, b) == IF a < b THEN a ELSE b
Max(a, b) == IF a > b THEN a ELSE b

\* String.prototype.trim on a token sequence.
RECURSIVE TrimLeft(_)
TrimLeft(t) == IF t # <<>> /\ Head(t) = " " THEN TrimLeft(Tail(t)) ELSE t

RECURSIVE TrimRight(_)
TrimRight(t) ==
    IF t # <<>> /\ t[Len(t)] = " " THEN TrimRight(SubSeq(t, 1, Len(t) - 1)) ELSE t

Trim(t) == TrimRight(TrimLeft(t))

(***************************************************************************)
(* enum/Selectors and enum/Filters.                                        *)
(***************************************************************************)
TEXT_SELECTORS == <<"h1", "p">>

ALL_ELEMENT_SELECTORS == <<"", "*">>

ContrastChildren ==
    TEXT_SELECTORS \o <<"div", "span", "section", "article", "main", "aside", "header", "footer">>

FilterNames == <<"dark-contrast", "light-contrast", "high-contrast",
                 "high-saturation", "low-saturation", "monochrome">>

FilterKeys == {FilterNames[i] : i \in 1..Len(FilterNames)}

FILTERS ==
    [k \in FilterKeys |->
        CASE k = "dark-contrast" ->
               [id |-> "dark-contrast", selector |-> "html.asw-dark-contrast",
                styles |-> << <<"color", "#FFFFFF">>, <<"fill", "#FFFFFF">>,
                              <<"background-color", "#000000">> >>,
                childrenSelector |-> ContrastChildren]
          [] k = "light-contrast" ->
               [id |-> "light-contrast", selector |-> "html.asw-light-contrast",
                styles |-> << <<"color", "#000000">>, <<"fill", "#000000">>,
                              <<"background-color", "#FFFFFF">> >>,
                childrenSelector |-> ContrastChildren]
          [] k = "high-contrast" ->
               [id |-> "high-contrast", selector |-> "html.asw-high-contrast",
                styles |-> << <<"filter", "contrast(125%)">> >>,
                childrenSelector |-> <<"body", "*">>]
          [] k = "high-saturation" ->
               [id |-> "high-saturation", selector |-> "html.asw-high-saturation",
                styles |-> << <<"filter", "saturate(200%)">> >>,
                childrenSelector |-> <<"body", "*">>]
          [] k = "low-saturation" ->
               [id |-> "low-saturation", selector |-> "html.asw-low-saturation",
                styles |-> << <<"filter", "saturate(50%)">> >>,
                childrenSelector |-> <<"body", "*">>]
          [] k = "monochrome" ->
               [id |-> "monochrome", selector |-> "html.asw-monochrome",
                styles |-> << <<"filter", "grayscale(100%)">> >>,
                childrenSelector |-> <<"body", "*">>]]

(***************************************************************************)
(* utils/cssGenerator: the CSS compiler.                                   *)
(***************************************************************************)
browserPrefixes == <<"-o-", "-ms-", "-moz-", "-webkit-", "">>

propertiesNeedPrefix == {"filter"}

\* One declaration per prefix, each followed by a blank.
RECURSIVE Declarations(_, _, _)
Declarations(prefixes, key, value) ==
    IF prefixes = <<>> THEN <<>>
    ELSE <<Head(prefixes) \o key \o ": " \o value \o " !important;", " ">>
         \o Declarations(Tail(prefixes), key, value)

\* The mutation that prefixes every property, not only those of
\* propertiesNeedPrefix.
RECURSIVE StylesLoop_all(_)
StylesLoop_all(styles) ==
    IF styles = <<>> THEN <<>>
    ELSE Declarations(browserPrefixes, Head(styles)[1], Head(styles)[2])
         \o StylesLoop_all(Tail(styles))

RECURSIVE StylesLoop(_)
StylesLoop(styles) ==
    IF styles = <<>> THEN <<>>
    ELSE LET key      == Head(styles)[1]
             value    == Head(styles)[2]
             prefixes == IF key \in propertiesNeedPrefix THEN browserPrefixes ELSE <<"">>
         IN  Declarations(prefixes, key, value) \o StylesLoop(Tail(styles))

\* generateCSS(styles); a missing styles object is passed as the empty map,
\* for which the loop body never runs, as for `if(styles)` being false.
generateCSS(styles) == Trim(StylesLoop(styles))

RECURSIVE WrapLoop(_, _, _)
WrapLoop(selector, childrenSelector, css) ==
    IF childrenSelector = <<>> THEN <<>>
    ELSE LET childSelector == Head(childrenSelector)
             fullSelector  == IF childSelector # ""
                              THEN selector \o " " \o childSelector
                              ELSE selector
         IN  <<fullSelector, " ", "{", " ">> \o css \o <<" ", "}", " ">>
             \o WrapLoop(selector, Tail(childrenSelector), css)

wrapCSSToSelector(selector, childrenSelector, css) ==
    Trim(WrapLoop(selector, childrenSelector, css))

StylesOf(config) == IF Has(config, "styles") THEN config.styles ELSE <<>>

\* generateCSSFromConfig(undefined): the argument for which `if (config)` fails.
NoConfig == [undefined |-> TRUE]

\* The mutation dropping the `generatedCSS &&` test: a selector is wrapped
\* around an empty declaration block.
generateCSSFromConfig_wrap(config) ==
    IF config = NoConfig THEN Trim(<<>>) ELSE
    LET generatedCSS == generateCSS(StylesOf(config))
        scoped ==
            IF Has(config, "selector") /\ config.selector # ""
            THEN wrapCSSToSelector(config.selector,
                                   IF Has(config, "childrenSelector")
                                   THEN config.childrenSelector ELSE <<"">>,
                                   generatedCSS)
            ELSE generatedCSS
        output ==
            IF Has(config, "css") /\ config.css # <<>>
            THEN scoped \o <<" ">> \o config.css
            ELSE scoped
    IN  Trim(output)

\* The mutation that puts config.css in front of the generated rules.
generateCSSFromConfig_prepend(config) ==
    IF config = NoConfig THEN Trim(<<>>) ELSE
    LET generatedCSS == generateCSS(StylesOf(config))
        scoped ==
            IF generatedCSS # <<>> /\ Has(config, "selector") /\ config.selector # ""
            THEN wrapCSSToSelector(config.selector,
                                   IF Has(config, "childrenSelector")
                                   THEN config.childrenSelector ELSE <<"">>,
                                   generatedCSS)
            ELSE IF generatedCSS # <<>> THEN generatedCSS
            ELSE <<>>
        output ==
            IF Has(config, "css") /\ config.css # <<>>
            THEN config.css \o <<" ">> \o scoped
            ELSE scoped
    IN  Trim(output)

generateCSSFromConfig(config) ==
    IF config = NoConfig THEN Trim(<<>>) ELSE
    LET generatedCSS == generateCSS(StylesOf(config))
        scoped ==
            IF generatedCSS # <<>> /\ Has(config, "selector") /\ config.selector # ""
            THEN wrapCSSToSelector(config.selector,
                                   IF Has(config, "childrenSelector")
                                   THEN config.childrenSelector ELSE <<"">>,
                                   generatedCSS)
            ELSE IF generatedCSS # <<>> THEN generatedCSS
            ELSE <<>>
        output ==
            IF Has(config, "css") /\ config.css # <<>>
            THEN scoped \o <<" ">> \o config.css
            ELSE scoped
    IN  Trim(output)

(***************************************************************************)
(* The document: style elements and the root class list.                   *)
(***************************************************************************)
\* Every id a style element of the model can carry.
ResourceIds ==
    {"asw-" \o FilterNames[i] : i \in 1..Len(FilterNames)}
    \cup {"asw-", "asw-undefined", "asw-readable-font"}

\* document.getElementById(id): the first element with that id, if any.
getElementById(els, id) == IF els[id] = <<>> THEN <<>> ELSE <<Head(els[id])>>

\* document.getElementById(id)?.remove()
RemoveById(els, id) ==
    IF getElementById(els, id) = <<>> THEN els
    ELSE [els EXCEPT ![id] = Tail(@)]

\* The mutation that inserts the new element before it removes the old one.
addStylesheetSteps_insertFirst(els, css, id) ==
    IF css = <<>> THEN <<>>
    ELSE LET inserted == [els EXCEPT ![id] = Append(@, css)]
         IN  <<inserted,
               IF els[id] = <<>> THEN inserted ELSE RemoveById(inserted, id)>>

\* utils/addStylesheet, one document state per DOM mutation: the old style
\* resource `id` is removed, then the new one is inserted; an empty text
\* touches nothing.
addStylesheetSteps(els, css, id) ==
    IF css = <<>> THEN <<>>
    ELSE LET removed == RemoveById(els, id)
         IN  <<removed, [removed EXCEPT ![id] = Append(@, css)]>>

\* utils/addStylesheet: create or replace the style resource `id`; an empty
\* text creates nothing.
addStylesheet(els, css, id) ==
    LET steps == addStylesheetSteps(els, css, id)
    IN  IF steps = <<>> THEN els ELSE steps[Len(steps)]

\* classList.toggle(token, force)
classListToggle(classes, token, force) ==
    IF force THEN classes \cup {token} ELSE classes \ {token}

(***************************************************************************)
(* utils/cssGenerator: the style injector.                                 *)
(***************************************************************************)
WithEnable(config, enable) == ("enable" :> enable) @@ config

\* The mutation a missing `force` argument of classList.toggle would give.
injectToolCSS_flip(config, els, classes) ==
    LET id     == IF Has(config, "id") THEN config.id ELSE ""
        enable == IF Has(config, "enable") THEN config.enable ELSE FALSE
        toolId == "asw-" \o id
    IN  [els     |-> IF enable
                     THEN addStylesheet(els, generateCSSFromConfig(config), toolId)
                     ELSE RemoveById(els, toolId),
         classes |-> IF toolId \in classes THEN classes \ {toolId}
                     ELSE classes \cup {toolId}]

\* The mutation that injects only when the id has no resource yet.
injectToolCSS_skip(config, els, classes) ==
    LET id     == IF Has(config, "id") THEN config.id ELSE ""
        enable == IF Has(config, "enable") THEN config.enable ELSE FALSE
        toolId == "asw-" \o id
    IN  [els     |-> IF enable
                     THEN IF getElementById(els, toolId) = <<>>
                          THEN addStylesheet(els, generateCSSFromConfig(config), toolId)
                          ELSE els
                     ELSE RemoveById(els, toolId),
         classes |-> classListToggle(classes, toolId, enable)]

\* The mutation that leaves the resource in place when disabling.
injectToolCSS_keep(config, els, classes) ==
    LET id     == IF Has(config, "id") THEN config.id ELSE ""
        enable == IF Has(config, "enable") THEN config.enable ELSE FALSE
        toolId == "asw-" \o id
    IN  [els     |-> IF enable
                     THEN addStylesheet(els, generateCSSFromConfig(config), toolId)
                     ELSE els,
         classes |-> classListToggle(classes, toolId, enable)]

\* The mutation that sets the marker class only when a text was injected.
injectToolCSS_add(config, els, classes) ==
    LET id     == IF Has(config, "id") THEN config.id ELSE ""
        enable == IF Has(config, "enable") THEN config.enable ELSE FALSE
        toolId == "asw-" \o id
    IN  [els     |-> IF enable
                     THEN addStylesheet(els, generateCSSFromConfig(config), toolId)
                     ELSE RemoveById(els, toolId),
         classes |-> classListToggle(classes, toolId,
                                     enable /\ generateCSSFromConfig(config) # <<>>)]

\* The mutation that toggles the bare id as the marker class.
injectToolCSS_bareClass(config, els, classes) ==
    LET id     == IF Has(config, "id") THEN config.id ELSE ""
        enable == IF Has(config, "enable") THEN config.enable ELSE FALSE
        toolId == "asw-" \o id
    IN  [els     |-> IF enable
                     THEN addStylesheet(els, generateCSSFromConfig(config), toolId)
                     ELSE RemoveById(els, toolId),
         classes |-> classListToggle(classes, id, enable)]

\* The mutation that, when enabling, switches every other tool off.
injectToolCSS_exclusive(config, els, classes) ==
    LET id     == IF Has(config, "id") THEN config.id ELSE ""
        enable == IF Has(config, "enable") THEN config.enable ELSE FALSE
        toolId == "asw-" \o id
    IN  [els     |-> IF enable
                     THEN addStylesheet([i \in DOMAIN els |->
                                            IF i = toolId THEN els[i] ELSE <<>>],
                                        generateCSSFromConfig(config), toolId)
                     ELSE RemoveById(els, toolId),
         classes |-> IF enable THEN {toolId} ELSE classes \ {toolId}]

injectToolCSS(config, els, classes) ==
    LET id     == IF Has(config, "id") THEN config.id ELSE ""
        enable == IF Has(config, "enable") THEN config.enable ELSE FALSE
        toolId == "asw-" \o id
    IN  [els     |-> IF enable
                     THEN addStylesheet(els, generateCSSFromConfig(config), toolId)
                     ELSE RemoveById(els, toolId),
         classes |-> classListToggle(classes, toolId, enable)]

(***************************************************************************)
(* tools/readableFont.                                                     *)
(***************************************************************************)
readableFontConfig ==
    [id |-> "readable-font",
     selector |-> "html.asw-readable-font",
     childrenSelector |-> ALL_ELEMENT_SELECTORS \o TEXT_SELECTORS,
     styles |-> << <<"font-family",
                     "OpenDyslexic, Atkinson Hyperlegible, Comic Sans MS, Verdana, Arial, sans-serif">> >>,
     css |-> <<" ", "@import url('https://fonts.googleapis.com/css2?family=Atkinson+Hyperlegible')",
               " ", "@font-face { font-family: 'OpenDyslexic'; }",
               " ", "html.asw-readable-font { --letter-spacing: 0.05em; --line-height: 1.6; }",
               " ", "html.asw-readable-font * { letter-spacing: var(--letter-spacing) !important; }",
               " ">>]

\* The mutation whose parameter defaults to true.
readableFont_on(enable, els, classes) ==
    LET on == enable # "false"
        r  == injectToolCSS(WithEnable(readableFontConfig, on), els, classes)
    IN  [els     |-> r.els,
         classes |-> IF on THEN r.classes \cup {"asw-readable-font"}
                     ELSE r.classes \ {"asw-readable-font"}]

\* readableFont(enable = false); `enable` is "true", "false" or "omitted".
readableFont(enable, els, classes) ==
    LET on == enable = "true"
        r  == injectToolCSS(WithEnable(readableFontConfig, on), els, classes)
    IN  [els     |-> r.els,
         classes |-> IF on THEN r.classes \cup {"asw-readable-font"}
                     ELSE r.classes \ {"asw-readable-font"}]

(***************************************************************************)
(* tools/enableContrast.                                                   *)
(***************************************************************************)
\* The identifier `key` in the clearing loop is bound by no enclosing scope
\* (the callback's parameter is `className`), so it resolves against the
\* global object of the host page: unbound, a value without a replace
\* method, or a string.
Unbound   == "<unbound>"
NonString == "<non-string>"
KeyStrings == {"asw-monochrome", "dark-contrast", "x"}
KeyGlobals == {Unbound, NonString} \cup KeyStrings

\* s.replace('asw-', '') on the strings of KeyStrings.
ReplaceAsw(s) == IF s = "asw-monochrome" THEN "monochrome" ELSE s

Null == "<null>"
Falsy(x) == x \in {"", Null}

\* `asw-${FILTERS[name]?.id}`
ClearedId(name) ==
    IF name \in FilterKeys THEN "asw-" \o FILTERS[name].id ELSE "asw-undefined"

\* The forEach over contrastClasses when `key` is a string: every pass
\* removes its own class and the resource named by `key`.
RECURSIVE ClearLoop(_, _, _, _)
ClearLoop(names, els, classes, key) ==
    IF names = <<>> THEN [els |-> els, classes |-> classes]
    ELSE ClearLoop(Tail(names),
                   RemoveById(els, ClearedId(ReplaceAsw(key))),
                   classes \ {"asw-" \o Head(names)},
                   key)

enableContrast(contrast, els, classes, key) ==
    IF key \in {Unbound, NonString}
    THEN \* first pass: the class is removed, then evaluating `key` (or
         \* `key.replace`) throws and the call aborts
         [els     |-> els,
          classes |-> classes \ {"asw-" \o Head(FilterNames)},
          err     |-> IF key = Unbound THEN "ReferenceError" ELSE "TypeError"]
    ELSE LET cleared == ClearLoop(FilterNames, els, classes, key)
         IN  IF Falsy(contrast) \/ contrast \notin FilterKeys
             THEN [els |-> cleared.els, classes |-> cleared.classes, err |-> "none"]
             ELSE LET injected == injectToolCSS(WithEnable(FILTERS[contrast], TRUE),
                                                cleared.els, cleared.classes)
                  IN  [els     |-> injected.els,
                       classes |-> injected.classes \cup {"asw-" \o contrast},
                       err     |-> "none"]

(***************************************************************************)
(* tools/adjustFontSize.                                                   *)
(***************************************************************************)
NoValue == -1       \* attribute or inline property not set
Inherit == -2       \* the page gives the element no font size of its own
Absent  == -3       \* the page has no such element

NumElements == 8
Elements == 1..NumElements

\* The page, in document order.  Elements 2 and 5 are children of element 1.
\* Elements 4 and 5 carry a class of ICON_SELECTOR_SET, element 6 lies in the
\* widget's subtree (closest(EXCLUDED_SELECTORS) matches), element 7 has no
\* layout box (offsetParent is null) and element 8 has only white-space
\* text.  Every other element is plain text.
ElParent(el)   == IF el \in {2, 5} THEN 1 ELSE 0
ElIcon(el)     == el \in {4, 5}
ElInWidget(el) == el = 6
ElNoLayout(el) == el = 7
ElBlank(el)    == el = 8

\* The three early returns of the forEach callback.
ElEligible(el) == ~(ElIcon(el) \/ ElInWidget(el) \/ ElNoLayout(el) \/ ElBlank(el))

RootFontSize == 1600                    \* hundredths of a pixel
AuthorSizes  == {0, 400, 1600, 4000}   \* hundredths of a pixel
Multipliers  == {1, 5, 10, 20, 100}    \* tenths: 0.1, 0.5, 1, 2, 10

MinFontSize == 800
MaxFontSize == 7200

\* parseFloat(window.getComputedStyle(el).fontSize): the inline !important
\* size when the widget wrote one, else the page's size, else the parent's.
RECURSIVE computedFontSize(_, _, _)
computedFontSize(el, author, inline) ==
    IF inline[el] # NoValue THEN inline[el]
    ELSE IF author[el] # Inherit THEN author[el]
    ELSE IF ElParent(el) = 0 THEN RootFontSize
    ELSE computedFontSize(ElParent(el), author, inline)

\* The mutation without the upper bound.
clampFontSize_open(org, multiply) == Max(MinFontSize, (org * multiply) \div 10)

\* Math.max(8, Math.min(72, orgFontSize * multiply))
clampFontSize(org, multiply) ==
    Max(MinFontSize, Min(MaxFontSize, (org * multiply) \div 10))

\* The mutation without the early returns: every matched element is rescaled.
visitElement_noskip(el, multiply, author, st) ==
    IF author[el] = Absent THEN st ELSE
    LET cachedNumber == st.cache[el]
        reread       == cachedNumber = NoValue \/ cachedNumber = 0
        orgFontSize  == IF reread
                        THEN computedFontSize(el, author, st.inline)
                        ELSE cachedNumber
    IN  [inline |-> [st.inline EXCEPT ![el] = clampFontSize(orgFontSize, multiply)],
         cache  |-> IF reread THEN [st.cache EXCEPT ![el] = orgFontSize]
                    ELSE st.cache]

\* The forEach body for one element.
visitElement(el, multiply, author, st) ==
    IF author[el] = Absent \/ ~ElEligible(el) THEN st
    ELSE LET cachedNumber == st.cache[el]
             reread       == cachedNumber = NoValue \/ cachedNumber = 0
             orgFontSize  == IF reread
                             THEN computedFontSize(el, author, st.inline)
                             ELSE cachedNumber
         IN  [inline |-> [st.inline EXCEPT ![el] = clampFontSize(orgFontSize, multiply)],
              cache  |-> IF reread THEN [st.cache EXCEPT ![el] = orgFontSize]
                         ELSE st.cache]

\* querySelectorAll(...).forEach: elements in document order.
RECURSIVE adjustLoop(_, _, _, _)
adjustLoop(el, multiply, author, st) ==
    IF el > NumElements THEN st
    ELSE adjustLoop(el + 1, multiply, author, visitElement(el, multiply, author, st))

\* The mutation that stores the multiplier only when an element was rescaled.
adjustFontSize_lazy(multiply, author, inline, cache) ==
    LET st == adjustLoop(1, multiply, author, [inline |-> inline, cache |-> cache])
    IN  [inline |-> st.inline, cache |-> st.cache,
         multiplier |-> IF \E el \in Elements : st.inline[el] # NoValue
                        THEN multiply ELSE NoValue]

\* adjustFontSize(multiply): the loop, then dataset.aswFontMultiplier =
\* String(multiply); the attribute text is kept as the number it spells.
adjustFontSize(multiply, author, inline, cache) ==
    LET st == adjustLoop(1, multiply, author, [inline |-> inline, cache |-> cache])
    IN  [inline |-> st.inline, cache |-> st.cache, multiplier |-> multiply]

(***************************************************************************)
(* The services: time, storage and the history of service calls.          *)
(***************************************************************************)
MaxTicks == 3        \* steps of the clock
MaxCalls == 4        \* service calls of one run that the history records
TickMs   == 30000    \* one step of the clock, in milliseconds

\* localStorage and sessionStorage, as the map of the entries that are set.
\* The two stores are kept in one map: the keys the services use are
\* distinct ('adasure_session_token' and 'adasure_security_events' in
\* localStorage, 'adasure_api_key' in sessionStorage).
EmptyMap == [k \in {} |-> 0]

getItem(st, k) == IF k \in DOMAIN st THEN st[k] ELSE Null

setItem(st, k, v) == (k :> v) @@ st

removeItem(st, k) == [x \in DOMAIN st \ {k} |-> st[x]]

\* History of the most recent service call: operation, argument, result,
\* Date.now() at the call, a snapshot of what the call could change, the
\* calls (or events) of the run so far, and their number.
NoRet == [op |-> "none", arg |-> "", result |-> "", now |-> 0,
          before |-> <<>>, log |-> <<>>, n |-> 0]

(***************************************************************************)
(* security/SecurityManager: rate limiter and security event log.          *)
(***************************************************************************)
MaxStoredEvents == 100
MaxNewEvents == 3    \* events logged in one run

\* rateLimitConfig values; entry.ts passes {maxRequests: 100, windowMs: 60000}.
RateConfigs == {[maxRequests |-> 1, windowMs |-> 30000],
                [maxRequests |-> 2, windowMs |-> 60000]}

\* clientId arguments of validateRequest; Null is the missing argument.
ClientArgs == {Null, "anonymous", "a"}

StoredEvents(st) ==
    IF "adasure_security_events" \in DOMAIN st THEN st["adasure_security_events"] ELSE <<>>

\* The mutation that keeps the first 100 events.
logSecurityEvent_head(st, type, details, now) ==
    LET event  == [type |-> type, timestamp |-> now, details |-> details]
        events == Append(StoredEvents(st), event)
        kept   == IF Len(events) > MaxStoredEvents
                  THEN SubSeq(events, 1, MaxStoredEvents)
                  ELSE events
    IN  setItem(st, "adasure_security_events", kept)

\* logSecurityEvent(type, details): push, splice(0, length - 100), store.
logSecurityEvent(st, type, details, now) ==
    LET event  == [type |-> type, timestamp |-> now, details |-> details]
        events == Append(StoredEvents(st), event)
        kept   == IF Len(events) > MaxStoredEvents
                  THEN SubSeq(events, Len(events) - MaxStoredEvents + 1, Len(events))
                  ELSE events
    IN  setItem(st, "adasure_security_events", kept)

\* validateRequest(endpoint, clientId) at time `now`: the new requestCounts,
\* the returned boolean and whether a rate_limit_exceeded event is logged.
validateRequest(sm, clientId, now) ==
    LET key         == IF Falsy(clientId) THEN "anonymous" ELSE clientId
        windowMs    == sm.config.windowMs
        maxRequests == sm.config.maxRequests
        counts      == sm.requestCounts
    IN  IF key \notin DOMAIN counts \/ now > counts[key].resetTime
        THEN [sm     |-> [sm EXCEPT !.requestCounts =
                             (key :> [count |-> 1, resetTime |-> now + windowMs]) @@ counts],
              result |-> TRUE, logged |-> FALSE, key |-> key]
        ELSE IF counts[key].count >= maxRequests
        THEN [sm |-> sm, result |-> FALSE, logged |-> TRUE, key |-> key]
        ELSE [sm     |-> [sm EXCEPT !.requestCounts =
                             [counts EXCEPT ![key].count = @ + 1]],
              result |-> TRUE, logged |-> FALSE, key |-> key]

\* clearSensitiveData(), the body of the beforeunload listener.
clearSensitiveData(sm) == [sm EXCEPT !.requestCounts = EmptyMap]

\* Messages of window 'error' events: the listener logs those naming CSP or CORS.
ErrorMessages == {"CSP", "CORS", "TypeError"}

InitSecurityManager ==
    securityManager = [config |-> [maxRequests |-> 2, windowMs |-> 60000],
                       requestCounts |-> EmptyMap]

(***************************************************************************)
(* entry.ts: start-up of the widget.                                       *)
(***************************************************************************)
MaxErrors == 2       \* window 'error' events of one page load

\* The module body (entry.ts:114-120) on a document in state `readyState`:
\* initialize() is called at once and runs up to `await loadLanguages()`, or
\* it is registered for readystatechange.
Booted(readyState) ==
    [readyState      |-> readyState,
     listening       |-> readyState = "loading",
     initAwaiting    |-> IF readyState = "loading" THEN 0 ELSE 1,
     timers          |-> 0,
     fallbackLoading |-> 0,
     errors          |-> 0,
     SiennaPlugin    |-> Null,
     siennaCalls     |-> 0,
     replaced        |-> FALSE]

\* initialize() up to its await: the readyState test, removeEventListener,
\* the synchronous set-up, then the suspension at loadLanguages().
initialize(b) ==
    IF b.readyState \in {"complete", "interactive"}
    THEN [b EXCEPT !.listening = FALSE, !.initAwaiting = @ + 1]
    ELSE b

\* window.SiennaPlugin = sienna(...), by initialize() or by the fallback.
assignWidget(b, by) ==
    [b EXCEPT !.SiennaPlugin = by,
              !.siennaCalls  = @ + 1,
              !.replaced     = @ \/ (by = "fallback" /\ b.SiennaPlugin = "initialize")]

InitBoot == boot = Booted("complete")

(***************************************************************************)
(* CloudflareAuth: the session.                                            *)
(***************************************************************************)
Tokens == {"t1", "t2"}

\* loadSession(), run by the constructor.
loadSession(st) ==
    [sessionToken |-> getItem(st, "adasure_session_token"),
     login |-> "idle", logout |-> "idle", me |-> "idle"]

saveSession(a, st, token) ==
    [auth    |-> [a EXCEPT !.sessionToken = token],
     storage |-> setItem(st, "adasure_session_token", token)]

\* The mutation that leaves the stored API key in place.
clearSession_keepKey(a, st) ==
    [auth    |-> [a EXCEPT !.sessionToken = Null],
     storage |-> removeItem(st, "adasure_session_token")]

clearSession(a, st) ==
    [auth    |-> [a EXCEPT !.sessionToken = Null],
     storage |-> removeItem(removeItem(st, "adasure_session_token"), "adasure_api_key")]

\* isAuthenticated(): !!this.sessionToken
isAuthenticated(a) == ~Falsy(a.sessionToken)

(***************************************************************************)
(* features/ComplianceReporting: feature tracking.                         *)
(***************************************************************************)
MaxTracked == 4      \* trackFeatureUsage calls of one session

FeatureNames == {"contrast", "font-size", "readable-font"}

\* sessionMetrics and the features set after the constructor.
NewSession == [features |-> {}, featuresUsed |-> <<>>, complianceScore |-> 100]

updateComplianceScore(c) ==
    LET baseScore    == 100
        featureBonus == Cardinality(c.features) * 2
    IN  [c EXCEPT !.complianceScore = Min(100, baseScore + featureBonus)]

\* The mutation without the features.has test.
trackFeatureUsage_always(c, featureName, enabled) ==
    IF enabled
    THEN updateComplianceScore(
             [c EXCEPT !.features     = @ \cup {featureName},
                       !.featuresUsed = Append(@, featureName)])
    ELSE c

trackFeatureUsage(c, featureName, enabled) ==
    IF enabled /\ featureName \notin c.features
    THEN updateComplianceScore(
             [c EXCEPT !.features     = @ \cup {featureName},
                       !.featuresUsed = Append(@, featureName)])
    ELSE c

(***************************************************************************)
(* SendPulseManager: the access-token cache.                               *)
(***************************************************************************)
TokenBufferMs == 60000

AccessTokens == {"tk1", "tk2"}
ExpiresIn    == {60, 90, 120}    \* data.expires_in, in seconds

NewSendPulse == [accessToken |-> Null, tokenExpiry |-> 0, pending |-> 0, sent |-> 0]

\* The mutation that asks for a new token on every call.
getAccessToken_refetch(sp, now) ==
    [sp |-> [sp EXCEPT !.pending = @ + 1, !.sent = @ + 1], cached |-> FALSE]

\* getAccessToken() up to its first await: the cache test, else the fetch.
getAccessToken(sp, now) ==
    IF ~Falsy(sp.accessToken) /\ now < sp.tokenExpiry
    THEN [sp |-> sp, cached |-> TRUE]
    ELSE [sp |-> [sp EXCEPT !.pending = @ + 1, !.sent = @ + 1], cached |-> FALSE]

\* getAccessToken() after the fetch: the response carries an access_token
\* (ok) or the fetch failed or carried none (the function throws).
tokenResponse(sp, ok, token, expiresIn, now) ==
    IF ok
    THEN [sp EXCEPT !.pending     = @ - 1,
                    !.accessToken = token,
                    !.tokenExpiry = now + (expiresIn * 1000) - TokenBufferMs]
    ELSE [sp EXCEPT !.pending = @ - 1]

\* The services before any of their calls.
InitServices ==
    /\ clock = 0
    /\ storage = EmptyMap
    /\ InitSecurityManager
    /\ InitBoot
    /\ cloudflareAuth = loadSession(EmptyMap)
    /\ compliance = NewSession
    /\ sendPulse = NewSendPulse
    /\ ret = NoRet

(***************************************************************************)
(* Calls made by the widget's UI layer.                                    *)
(***************************************************************************)
\* Configurations handed to injectToolCSS directly.
ToolConfigs ==
    [label \in {"monochrome", "dark-contrast", "mono-alt", "mono-none", "mono-blank", "no-id"} |->
        CASE label = "monochrome"    -> FILTERS["monochrome"]
          [] label = "dark-contrast" -> FILTERS["dark-contrast"]
          [] label = "mono-alt"      -> [id |-> "monochrome",
                                         styles |-> << <<"filter", "grayscale(50%)">> >>]
          [] label = "mono-none"     -> [id |-> "monochrome"]
          [] label = "mono-blank"    -> [id |-> "monochrome",
                                         selector |-> "html.asw-monochrome",
                                         styles |-> <<>>, css |-> <<>>]
          [] label = "no-id"         -> [css |-> <<" ", "body { margin: 0 }", " ">>]]

ConfigLabels == DOMAIN ToolConfigs
Enables == {"true", "false", "omitted"}

CallConfig(label, enable) ==
    IF enable = "omitted" THEN ToolConfigs[label]
    ELSE WithEnable(ToolConfigs[label], enable = "true")

\* Arguments of enableContrast: registry names, an unknown name, falsy values.
ContrastArgs == {"monochrome", "dark-contrast", "high-contrast", "sepia", "", Null}

\* The resource id injectToolCSS derives for a configuration.
ToolIdOf(label) ==
    "asw-" \o (IF Has(ToolConfigs[label], "id") THEN ToolConfigs[label].id ELSE "")

\* History of the most recent call: its operation and arguments, how many
\* times in a row it was made with these arguments (up to MaxRepeat), the
\* style elements that carried the call's resource id when it started, and
\* the error it raised.
NoCall == [op |-> "none", cfg |-> "", enable |-> "", name |-> "", mul |-> 0,
           rep |-> 0, before |-> <<>>, err |-> "none"]

Called(op, cfg, enable, name, mul, before, err) ==
    LET same == last.op = op /\ last.cfg = cfg /\ last.enable = enable
                /\ last.name = name /\ last.mul = mul
    IN  [op |-> op, cfg |-> cfg, enable |-> enable, name |-> name, mul |-> mul,
         rep |-> IF same THEN Min(last.rep + 1, MaxRepeat) ELSE 1,
         before |-> before, err |-> err]

\* Inputs of the CSS compiler: every combination of a styles map, a selector,
\* a childrenSelector list and a literal css, each present or missing.
StylePairs == {<<"filter", "grayscale(100%)">>, <<"color", "#fff">>,
               <<"font-family", "Arial">>}

StyleMaps ==
    {st \in UNION {[1..n -> StylePairs] : n \in 0..MaxStyles} :
        \A i, j \in 1..Len(st) : i # j => st[i][1] # st[j][1]}

StyleOpts == {[has |-> FALSE, v |-> <<>>]} \cup {[has |-> TRUE, v |-> st] : st \in StyleMaps}

SelectorOpts == {[has |-> FALSE, v |-> ""], [has |-> TRUE, v |-> ""],
                 [has |-> TRUE, v |-> "html.asw-x"]}

ChildrenOpts == {[has |-> FALSE, v |-> <<>>]} \cup
                {[has |-> TRUE, v |-> ch] :
                    ch \in {<<>>, <<"">>, <<"body">>, <<"body", "*">>, <<"", "p">>}}

CssOpts == {[has |-> FALSE, v |-> <<>>]} \cup
           {[has |-> TRUE, v |-> cs] :
               cs \in {<<>>, <<" ">>, <<"@font-face { }">>,
                       <<" ", "body { margin: 0 }", " ">>}}

MkConfig(st, sel, ch, cs) ==
    LET c0 == [id |-> "x"]
        c1 == IF st.has  THEN ("styles" :> st.v) @@ c0 ELSE c0
        c2 == IF sel.has THEN ("selector" :> sel.v) @@ c1 ELSE c1
        c3 == IF ch.has  THEN ("childrenSelector" :> ch.v) @@ c2 ELSE c2
    IN  IF cs.has THEN ("css" :> cs.v) @@ c3 ELSE c3

CompileConfigs ==
    {NoConfig} \cup
    {MkConfig(st, sel, ch, cs) :
        st \in StyleOpts, sel \in SelectorOpts, ch \in ChildrenOpts, cs \in CssOpts}

NotCompiled == [done |-> FALSE, block |-> <<>>, css |-> <<>>]

\* Font sizes the page gives its elements: the text elements draw theirs, an
\* icon inside a text element inherits, the other skipped elements have 16px.
PageFonts ==
    {[el \in Elements |->
        IF ElEligible(el) THEN g[el]
        ELSE IF ElParent(el) # 0 THEN Inherit
        ELSE RootFontSize] :
     g \in [{el \in Elements : ElEligible(el)} -> AuthorSizes \cup {Inherit}]}

InitDocument ==
    /\ docCtx = TRUE
    /\ styleEls = [id \in ResourceIds |-> <<>>]
    /\ rootClasses = {}
    /\ fontInline = [el \in Elements |-> NoValue]
    /\ orgCache = [el \in Elements |-> NoValue]
    /\ fontMultiplier = NoValue
    /\ last = NoCall

Init ==
    /\ InitDocument
    /\ InitServices
    /\ compIn = NoConfig
    /\ compiled = NotCompiled
    /\ keyGlobal \in KeyGlobals
    /\ fontAuthor = [el \in Elements |-> IF ElParent(el) # 0 THEN Inherit ELSE RootFontSize]

InitFont ==
    /\ InitDocument
    /\ InitServices
    /\ compIn = NoConfig
    /\ compiled = NotCompiled
    /\ keyGlobal = Unbound
    /\ fontAuthor \in PageFonts

\* Where no global `document` exists, the first statement of a tool that
\* names it (part_002:453/456, part_001:8, adjustFontSize.ts:10) throws a
\* ReferenceError before anything was written.
NoDocumentError == "ReferenceError"

SetToolActive(label, enable) ==
    LET r == injectToolCSS(CallConfig(label, enable), styleEls, rootClasses)
    IN  /\ styleEls' = IF docCtx THEN r.els ELSE styleEls
        /\ rootClasses' = IF docCtx THEN r.classes ELSE rootClasses
        /\ last' = Called("injectToolCSS", label, enable, "", 0,
                        styleEls[ToolIdOf(label)],
                        IF docCtx THEN "none" ELSE NoDocumentError)
        /\ UNCHANGED <<keyGlobal, fontAuthor, fontVars, compVars, docCtx, svcVars>>

ApplyFilter(contrast) ==
    LET r == enableContrast(contrast, styleEls, rootClasses, keyGlobal)
    IN  /\ styleEls' = IF docCtx THEN r.els ELSE styleEls
        /\ rootClasses' = IF docCtx THEN r.classes ELSE rootClasses
        /\ last' = Called("enableContrast", "", "", contrast, 0, <<>>,
                        IF docCtx THEN r.err ELSE NoDocumentError)
        /\ UNCHANGED <<keyGlobal, fontAuthor, fontVars, compVars, docCtx, svcVars>>

AdjustFontSize(multiply) ==
    LET r == adjustFontSize(multiply, fontAuthor, fontInline, orgCache)
    IN  /\ fontInline' = IF docCtx THEN r.inline ELSE fontInline
        /\ orgCache' = IF docCtx THEN r.cache ELSE orgCache
        /\ fontMultiplier' = IF docCtx THEN r.multiplier ELSE fontMultiplier
        /\ last' = Called("adjustFontSize", "", "", "", multiply, <<>>,
                        IF docCtx THEN "none" ELSE NoDocumentError)
        /\ UNCHANGED <<keyGlobal, fontAuthor, cssVars, compVars, docCtx, svcVars>>

\* One call of generateCSSFromConfig (and of generateCSS on the config's
\* styles); the call reads its argument and returns a string.
Compile ==
    /\ ~compiled.done
    /\ compiled' = [done  |-> TRUE,
                    block |-> generateCSS(StylesOf(compIn)),
                    css   |-> generateCSSFromConfig(compIn)]
    /\ UNCHANGED <<compIn, keyGlobal, fontAuthor, cssVars, fontVars, last, docCtx, svcVars>>

InitCompile ==
    /\ InitDocument
    /\ InitServices
    /\ keyGlobal = Unbound
    /\ fontAuthor = [el \in Elements |-> IF ElParent(el) # 0 THEN Inherit ELSE RootFontSize]
    /\ compIn \in CompileConfigs
    /\ compiled = NotCompiled

InjectStep  == \E label \in ConfigLabels, enable \in Enables : SetToolActive(label, enable)
FilterStep  == \E contrast \in ContrastArgs : ApplyFilter(contrast)
FontStep    == \E multiply \in Multipliers : AdjustFontSize(multiply)

Next == InjectStep \/ FilterStep

NextFont == FontStep

Spec == Init /\ [][Next]_vars

SpecFont == InitFont /\ [][NextFont]_vars

\* The style tools on a host with or without a document.
InitContext ==
    /\ InitServices
    /\ docCtx \in BOOLEAN
    /\ styleEls = [id \in ResourceIds |-> <<>>]
    /\ rootClasses = {}
    /\ fontInline = [el \in Elements |-> NoValue]
    /\ orgCache = [el \in Elements |-> NoValue]
    /\ fontMultiplier = NoValue
    /\ last = NoCall
    /\ compIn = NoConfig
    /\ compiled = NotCompiled
    /\ keyGlobal \in KeyGlobals
    /\ fontAuthor = [el \in Elements |-> IF ElParent(el) # 0 THEN Inherit ELSE RootFontSize]

SpecContext == InitContext /\ [][Next]_vars

\* The CSS compiler alone, on every input of CompileConfigs.
NextCompile == Compile

SpecCompile == InitCompile /\ [][NextCompile]_vars

\* The contrast tool alone: nothing but enableContrast calls.
SpecFilter == Init /\ [][FilterStep]_vars

\* One call of readableFont(enable); `enable` may be omitted.
ReadableFont(enable) ==
    LET r == readableFont(enable, styleEls, rootClasses)
    IN  /\ styleEls' = IF docCtx THEN r.els ELSE styleEls
        /\ rootClasses' = IF docCtx THEN r.classes ELSE rootClasses
        /\ last' = Called("readableFont", "readable-font", enable, "", 0,
                        styleEls["asw-readable-font"],
                        IF docCtx THEN "none" ELSE NoDocumentError)
        /\ UNCHANGED <<keyGlobal, fontAuthor, fontVars, compVars, docCtx, svcVars>>

ReadableStep == \E enable \in Enables : ReadableFont(enable)

\* The style injector, the readable-font tool and the font-size tool together.
NextTools == InjectStep \/ ReadableStep \/ FontStep

InitTools ==
    /\ InitDocument
    /\ InitServices
    /\ compIn = NoConfig
    /\ compiled = NotCompiled
    /\ keyGlobal = Unbound
    /\ fontAuthor = [el \in Elements |-> IF ElParent(el) # 0 THEN Inherit ELSE RootFontSize]

SpecTools == InitTools /\ [][NextTools]_vars

\* Pages without an eligible element: an empty page, and a page that has
\* only elements the callback returns early for.
BarePages ==
    {[el \in Elements |-> Absent],
     [el \in Elements |-> IF ElEligible(el) THEN Absent
                          ELSE IF ElParent(el) # 0 THEN Inherit
                          ELSE RootFontSize]}

InitPages ==
    /\ InitDocument
    /\ InitServices
    /\ compIn = NoConfig
    /\ compiled = NotCompiled
    /\ keyGlobal = Unbound
    /\ fontAuthor \in PageFonts \cup BarePages

\* The font-size tool on every page of PageFonts and of BarePages.
SpecPages == InitPages /\ [][NextFont]_vars

(***************************************************************************)
(* The services: actions and specifications.                               *)
(***************************************************************************)
\* The tools before any call, on the page of Init.
IdleTools ==
    /\ InitDocument
    /\ compIn = NoConfig
    /\ compiled = NotCompiled
    /\ keyGlobal = Unbound
    /\ fontAuthor = [el \in Elements |-> IF ElParent(el) # 0 THEN Inherit ELSE RootFontSize]

\* Time passes.
Tick ==
    /\ clock < MaxTicks * TickMs
    /\ clock' = clock + TickMs
    /\ UNCHANGED <<toolVars, storage, securityManager, boot, cloudflareAuth,
                   compliance, sendPulse, ret>>

\* One call of validateRequest(endpoint, clientId); a refused call logs a
\* rate_limit_exceeded event.
ValidateRequest(clientId) ==
    LET r == validateRequest(securityManager, clientId, clock)
    IN  /\ ret.n < MaxCalls
        /\ securityManager' = r.sm
        /\ storage' = IF r.logged
                      THEN logSecurityEvent(storage, "rate_limit_exceeded", r.key, clock)
                      ELSE storage
        /\ ret' = [op |-> "validateRequest", arg |-> r.key,
                   result |-> IF r.result THEN "true" ELSE "false",
                   now |-> clock, before |-> securityManager.requestCounts,
                   log |-> Append(ret.log, [key |-> r.key, now |-> clock, ok |-> r.result]),
                   n |-> ret.n + 1]
        /\ UNCHANGED <<toolVars, clock, boot, cloudflareAuth, compliance, sendPulse>>

\* The beforeunload listener of the SecurityManager; the page may stay
\* (the unload can be cancelled, and downloads fire the event too).
BeforeUnload ==
    /\ securityManager' = clearSensitiveData(securityManager)
    /\ ret' = [ret EXCEPT !.op = "beforeunload", !.arg = "", !.result = "",
                          !.now = clock, !.before = securityManager.requestCounts]
    /\ UNCHANGED <<toolVars, clock, storage, boot, cloudflareAuth, compliance, sendPulse>>

ValidateStep == \E clientId \in ClientArgs : ValidateRequest(clientId)

InitRate ==
    /\ IdleTools
    /\ clock = 0
    /\ storage = EmptyMap
    /\ securityManager \in {[config |-> c, requestCounts |-> EmptyMap] : c \in RateConfigs}
    /\ InitBoot
    /\ cloudflareAuth = loadSession(EmptyMap)
    /\ compliance = NewSession
    /\ sendPulse = NewSendPulse
    /\ ret = NoRet

NextRate == ValidateStep \/ Tick \/ BeforeUnload

\* The rate limiter of the SecurityManager.
SpecRate == InitRate /\ [][NextRate]_vars

\* The 'error' listener of the SecurityManager.
SecurityError(message) ==
    LET logs == message \in {"CSP", "CORS"}
        st   == logSecurityEvent(storage, "csp_violation", message, clock)
    IN  /\ ret.n < MaxNewEvents
        /\ storage' = IF logs THEN st ELSE storage
        /\ ret' = [op |-> "error", arg |-> message,
                   result |-> IF logs THEN "logged" ELSE "ignored",
                   now |-> clock, before |-> StoredEvents(storage),
                   log |-> IF logs
                           THEN Append(ret.log, [type |-> "csp_violation",
                                                 timestamp |-> clock, details |-> message])
                           ELSE ret.log,
                   n |-> ret.n + 1]
        /\ UNCHANGED <<toolVars, clock, securityManager, boot, cloudflareAuth,
                       compliance, sendPulse>>

SecurityErrorStep == \E message \in ErrorMessages : SecurityError(message)

\* The log an earlier visit left in localStorage: n events, oldest first.
PriorLog(n) ==
    [i \in 1..n |-> [type |-> "csp_violation", timestamp |-> i - n - 1, details |-> "CSP"]]

PriorLogs == {PriorLog(n) : n \in {0, MaxStoredEvents - 1, MaxStoredEvents}}

InitEventLog ==
    /\ IdleTools
    /\ clock = 0
    /\ \E prior \in PriorLogs :
          /\ storage = IF prior = <<>> THEN EmptyMap
                       ELSE setItem(EmptyMap, "adasure_security_events", prior)
          /\ ret = [NoRet EXCEPT !.log = prior]
    /\ InitSecurityManager
    /\ InitBoot
    /\ cloudflareAuth = loadSession(EmptyMap)
    /\ compliance = NewSession
    /\ sendPulse = NewSendPulse

NextEventLog == SecurityErrorStep \/ Tick

\* The security event log, starting from the log of an earlier visit.
SpecEventLog == InitEventLog /\ [][NextEventLog]_vars

\* document.readyState advances and readystatechange fires.
ReadyStateChange ==
    /\ boot.readyState # "complete"
    /\ LET b == [boot EXCEPT !.readyState =
                     IF boot.readyState = "loading" THEN "interactive" ELSE "complete"]
       IN  boot' = IF boot.listening THEN initialize(b) ELSE b
    /\ UNCHANGED <<toolVars, clock, storage, securityManager, cloudflareAuth,
                   compliance, sendPulse, ret>>

\* loadLanguages() settles for a suspended initialize(): it goes on to
\* window.SiennaPlugin = sienna({options}), or the rejection ends it.
LanguagesLoaded(ok) ==
    /\ boot.initAwaiting > 0
    /\ LET b == [boot EXCEPT !.initAwaiting = @ - 1]
       IN  boot' = IF ok THEN assignWidget(b, "initialize") ELSE b
    /\ UNCHANGED <<toolVars, clock, storage, securityManager, cloudflareAuth,
                   compliance, sendPulse, ret>>

\* An 'error' event reaches the window listener of entry.ts.
WindowError ==
    /\ boot.errors < MaxErrors
    /\ boot' = [boot EXCEPT !.errors = @ + 1,
                            !.timers = IF Falsy(boot.SiennaPlugin) THEN @ + 1 ELSE @]
    /\ UNCHANGED <<toolVars, clock, storage, securityManager, cloudflareAuth,
                   compliance, sendPulse, ret>>

\* A fallback timer fires after its 1000 ms and calls loadLanguages().
TimerFire ==
    /\ boot.timers > 0
    /\ boot' = [boot EXCEPT !.timers = @ - 1, !.fallbackLoading = @ + 1]
    /\ UNCHANGED <<toolVars, clock, storage, securityManager, cloudflareAuth,
                   compliance, sendPulse, ret>>

\* loadLanguages() settles for a fallback: its then-callback assigns
\* window.SiennaPlugin = sienna({options: basicOptions}).
FallbackLoaded(ok) ==
    /\ boot.fallbackLoading > 0
    /\ LET b == [boot EXCEPT !.fallbackLoading = @ - 1]
       IN  boot' = IF ok THEN assignWidget(b, "fallback") ELSE b
    /\ UNCHANGED <<toolVars, clock, storage, securityManager, cloudflareAuth,
                   compliance, sendPulse, ret>>

InitPageLoad ==
    /\ IdleTools
    /\ clock = 0
    /\ storage = EmptyMap
    /\ InitSecurityManager
    /\ boot \in {Booted(rs) : rs \in {"loading", "interactive", "complete"}}
    /\ cloudflareAuth = loadSession(EmptyMap)
    /\ compliance = NewSession
    /\ sendPulse = NewSendPulse
    /\ ret = NoRet

NextPageLoad ==
    \/ ReadyStateChange
    \/ \E ok \in BOOLEAN : LanguagesLoaded(ok)
    \/ WindowError
    \/ TimerFire
    \/ \E ok \in BOOLEAN : FallbackLoaded(ok)

\* One page load: the module body of entry.ts and what follows it.
SpecPageLoad == InitPageLoad /\ [][NextPageLoad]_vars

\* What a session call could change: the token in memory and the stored entries.
SessionSnapshot ==
    [token  |-> cloudflareAuth.sessionToken,
     stored |-> getItem(storage, "adasure_session_token"),
     apiKey |-> getItem(storage, "adasure_api_key")]

\* Outcomes of a request: an ok response, an error response, a failed fetch.
Outcomes == {"ok", "rejected", "network"}

\* login(email, password) up to its await of the fetch.
Login ==
    /\ cloudflareAuth.login = "idle"
    /\ cloudflareAuth' = [cloudflareAuth EXCEPT !.login = "sent"]
    /\ UNCHANGED <<toolVars, clock, storage, securityManager, boot, compliance,
                   sendPulse, ret>>

\* login after the fetch: saveSession(result.token) on an ok response, then
\* updateLastLogin(), which catches its own errors.
LoginResponse(outcome, token) ==
    /\ cloudflareAuth.login = "sent"
    /\ LET a == [cloudflareAuth EXCEPT !.login = "idle"]
           r == IF outcome = "ok" THEN saveSession(a, storage, token)
                ELSE [auth |-> a, storage |-> storage]
       IN  /\ cloudflareAuth' = r.auth
           /\ storage' = r.storage
           /\ ret' = [ret EXCEPT !.op = "login", !.arg = outcome,
                                 !.result = IF outcome = "ok" THEN "success" ELSE "failure",
                                 !.before = SessionSnapshot,
                                 !.log = IF outcome = "ok" THEN <<"saved">> ELSE @]
    /\ UNCHANGED <<toolVars, clock, securityManager, boot, compliance, sendPulse>>

\* logout() up to its await: with a token the request is sent, without one
\* clearSession() runs at once.
Logout ==
    /\ cloudflareAuth.logout = "idle"
    /\ IF ~Falsy(cloudflareAuth.sessionToken)
       THEN /\ cloudflareAuth' = [cloudflareAuth EXCEPT !.logout = "sent"]
            /\ UNCHANGED <<storage, ret>>
       ELSE LET r == clearSession(cloudflareAuth, storage)
            IN  /\ cloudflareAuth' = r.auth
                /\ storage' = r.storage
                /\ ret' = [ret EXCEPT !.op = "logout", !.arg = "not-sent", !.result = "",
                                      !.before = SessionSnapshot, !.log = <<"cleared">>]
    /\ UNCHANGED <<toolVars, clock, securityManager, boot, compliance, sendPulse>>

\* logout after the fetch settled, whatever its outcome: clearSession().
LogoutResponse(outcome) ==
    /\ cloudflareAuth.logout = "sent"
    /\ LET r == clearSession([cloudflareAuth EXCEPT !.logout = "idle"], storage)
       IN  /\ cloudflareAuth' = r.auth
           /\ storage' = r.storage
           /\ ret' = [ret EXCEPT !.op = "logout", !.arg = outcome, !.result = "",
                                 !.before = SessionSnapshot, !.log = <<"cleared">>]
    /\ UNCHANGED <<toolVars, clock, securityManager, boot, compliance, sendPulse>>

\* getCurrentUser() with a token, up to its await.
GetCurrentUser ==
    /\ cloudflareAuth.me = "idle"
    /\ ~Falsy(cloudflareAuth.sessionToken)
    /\ cloudflareAuth' = [cloudflareAuth EXCEPT !.me = "sent"]
    /\ UNCHANGED <<toolVars, clock, storage, securityManager, boot, compliance,
                   sendPulse, ret>>

\* getCurrentUser after the fetch: an error response clears the session.
CurrentUserResponse(outcome) ==
    /\ cloudflareAuth.me = "sent"
    /\ LET a == [cloudflareAuth EXCEPT !.me = "idle"]
           r == IF outcome = "rejected" THEN clearSession(a, storage)
                ELSE [auth |-> a, storage |-> storage]
       IN  /\ cloudflareAuth' = r.auth
           /\ storage' = r.storage
           /\ ret' = [ret EXCEPT !.op = "getCurrentUser", !.arg = outcome, !.result = "",
                                 !.before = SessionSnapshot,
                                 !.log = IF outcome = "rejected" THEN <<"cleared">> ELSE @]
    /\ UNCHANGED <<toolVars, clock, securityManager, boot, compliance, sendPulse>>

\* The stores when the CloudflareAuth object is constructed.
SessionStores ==
    {EmptyMap,
     setItem(EmptyMap, "adasure_api_key", "key"),
     setItem(EmptyMap, "adasure_session_token", "t1"),
     setItem(setItem(EmptyMap, "adasure_session_token", "t1"), "adasure_api_key", "key")}

InitSession ==
    /\ IdleTools
    /\ clock = 0
    /\ storage \in SessionStores
    /\ InitSecurityManager
    /\ InitBoot
    /\ cloudflareAuth = loadSession(storage)
    /\ compliance = NewSession
    /\ sendPulse = NewSendPulse
    /\ ret = [NoRet EXCEPT !.log = IF Falsy(getItem(storage, "adasure_session_token"))
                                   THEN <<>> ELSE <<"loaded">>]

NextSession ==
    \/ Login
    \/ \E outcome \in Outcomes, token \in Tokens : LoginResponse(outcome, token)
    \/ Logout
    \/ \E outcome \in Outcomes : LogoutResponse(outcome)
    \/ GetCurrentUser
    \/ \E outcome \in Outcomes : CurrentUserResponse(outcome)

\* The CloudflareAuth session.
SpecSession == InitSession /\ [][NextSession]_vars

\* One call of trackFeatureUsage(featureName, enabled).
TrackFeatureUsage(featureName, enabled) ==
    /\ ret.n < MaxTracked
    /\ compliance' = trackFeatureUsage(compliance, featureName, enabled)
    /\ ret' = [op |-> "trackFeatureUsage", arg |-> featureName,
               result |-> IF enabled THEN "true" ELSE "false",
               now |-> clock, before |-> compliance.featuresUsed,
               log |-> Append(ret.log, [name |-> featureName, enabled |-> enabled]),
               n |-> ret.n + 1]
    /\ UNCHANGED <<toolVars, clock, storage, securityManager, boot, cloudflareAuth,
                   sendPulse>>

NextTracking ==
    \E featureName \in FeatureNames, enabled \in BOOLEAN :
        TrackFeatureUsage(featureName, enabled)

InitTracking ==
    /\ IdleTools
    /\ InitServices

\* ComplianceReporting's feature tracking.
SpecTracking == InitTracking /\ [][NextTracking]_vars

\* getAccessToken() up to its first await.
GetAccessToken ==
    LET r == getAccessToken(sendPulse, clock)
    IN  /\ ret.n < MaxCalls
        /\ sendPulse' = r.sp
        /\ ret' = [op |-> "getAccessToken",
                   arg |-> IF r.cached THEN "cached" ELSE "requested",
                   result |-> IF r.cached THEN sendPulse.accessToken ELSE "",
                   now |-> clock, before |-> [sp |-> sendPulse, expiresIn |-> 0],
                   log |-> <<>>, n |-> ret.n + 1]
        /\ UNCHANGED <<toolVars, clock, storage, securityManager, boot, cloudflareAuth,
                       compliance>>

\* getAccessToken() after the token request settled.
TokenResponse(ok, token, expiresIn) ==
    /\ sendPulse.pending > 0
    /\ sendPulse' = tokenResponse(sendPulse, ok, token, expiresIn, clock)
    /\ ret' = [ret EXCEPT !.op = "tokenResponse",
                          !.arg = IF ok THEN "ok" ELSE "error",
                          !.result = IF ok THEN token ELSE "error",
                          !.now = clock,
                          !.before = [sp |-> sendPulse, expiresIn |-> expiresIn]]
    /\ UNCHANGED <<toolVars, clock, storage, securityManager, boot, cloudflareAuth,
                   compliance>>

NextSendPulse ==
    \/ GetAccessToken
    \/ \E ok \in BOOLEAN, token \in AccessTokens, expiresIn \in ExpiresIn :
          TokenResponse(ok, token, expiresIn)
    \/ Tick

InitSendPulse ==
    /\ IdleTools
    /\ InitServices

\* The SendPulse access-token cache.
SpecSendPulse == InitSendPulse /\ [][NextSendPulse]_vars

(***************************************************************************)
(* Properties of the contrast tool.                                        *)
(***************************************************************************)
\* A registry filter is active when its marker class is on the root or a
\* style element carries its resource id.
FilterClassOn(k)    == ("asw-" \o k) \in rootClasses
FilterResourceOn(k) == styleEls["asw-" \o FILTERS[k].id] # <<>>
FilterActive(k)     == FilterClassOn(k) \/ FilterResourceOn(k)

ActiveFilters == {k \in FilterKeys : FilterActive(k)}

AfterContrast == last.op = "enableContrast"

\* C1: in every state in which an enableContrast call has returned or
\* aborted, at most one entry of the Filter Registry has its marker class on
\* the root or its style resource in the document.
C1_AtMostOneFilter == AfterContrast => Cardinality(ActiveFilters) <= 1

\* C2: after enableContrast(b) with b a registry name, from any prior state,
\* exactly b's resource and marker class are present among the registry
\* filters (so a filter applied before b is gone).
C2_OnlyRequestedFilter ==
    (AfterContrast /\ last.name \in FilterKeys) =>
        \A k \in FilterKeys :
            /\ FilterClassOn(k) <=> k = last.name
            /\ FilterResourceOn(k) <=> k = last.name

\* C3: enableContrast(name) with name falsy or not a registry key raises no
\* error and leaves every registry filter's resource and marker class absent.
C3_UnknownClearsAll ==
    (AfterContrast /\ (Falsy(last.name) \/ last.name \notin FilterKeys)) =>
        /\ last.err = "none"
        /\ ActiveFilters = {}

(***************************************************************************)
(* Properties of the style injector.                                       *)
(***************************************************************************)
AfterInject == last.op = "injectToolCSS"

LastToolId  == ToolIdOf(last.cfg)
LastEnabled == last.enable = "true"
LastCSS     == generateCSSFromConfig(ToolConfigs[last.cfg])

NoStylesNoCss(config) ==
    /\ StylesOf(config) = <<>>
    /\ ~Has(config, "css") \/ config.css = <<>>

\* C4: injectToolCSS is idempotent: a call repeating the previous call's
\* (config, enable) leaves the style elements and the root classes as they
\* were; after two calls with enable = true and a non-empty text, exactly one
\* style element carries the id, it holds the compiled text, and the marker
\* class is set.
C4_Idempotent ==
    [][ (last'.op = "injectToolCSS" /\ last'.rep >= 2) =>
            /\ styleEls' = styleEls
            /\ rootClasses' = rootClasses
            /\ (last'.enable = "true"
                /\ generateCSSFromConfig(ToolConfigs[last'.cfg]) # <<>>) =>
                   /\ styleEls'[ToolIdOf(last'.cfg)]
                        = <<generateCSSFromConfig(ToolConfigs[last'.cfg])>>
                   /\ ToolIdOf(last'.cfg) \in rootClasses' ]_vars

C4_Witness ==
    /\ AfterInject /\ LastEnabled /\ last.rep >= 2
    /\ LastCSS # <<>>
    /\ styleEls[LastToolId] = <<LastCSS>>
    /\ LastToolId \in rootClasses

C6_EmptyCreatesNothing ==
    [][ (last'.op = "injectToolCSS" /\ last'.enable = "true"
         /\ NoStylesNoCss(ToolConfigs[last'.cfg])) =>
            styleEls' = styleEls ]_vars

C6_Witness ==
    /\ AfterInject /\ LastEnabled
    /\ NoStylesNoCss(ToolConfigs[last.cfg])
    /\ last.before # <<>>
    /\ styleEls[LastToolId] = last.before

\* C7: a disabling call removes the style element of its id when there is
\* one, and otherwise raises no error and leaves the style elements unchanged.
C7_DisableRemoves ==
    [][ (last'.op = "injectToolCSS" /\ last'.enable \in {"false", "omitted"}) =>
            /\ last'.err = "none"
            /\ styleEls'[ToolIdOf(last'.cfg)] = <<>>
            /\ \A id \in ResourceIds \ {ToolIdOf(last'.cfg)} : styleEls'[id] = styleEls[id]
            /\ styleEls[ToolIdOf(last'.cfg)] = <<>> => styleEls' = styleEls ]_vars

C7_Witness ==
    /\ AfterInject /\ last.enable = "false"
    /\ last.before # <<>>
    /\ styleEls[LastToolId] = <<>>

\* C8: after every injectToolCSS call the marker class of the config's id is
\* on the root if and only if enable is true; an omitted enable is false.
C8_ClassMatchesEnable ==
    AfterInject => (LastToolId \in rootClasses <=> LastEnabled)

C8_Witness ==
    /\ AfterInject /\ LastEnabled
    /\ LastCSS = <<>>
    /\ styleEls[LastToolId] = <<>>
    /\ LastToolId \in rootClasses

(***************************************************************************)
(* Properties of the font-size tool.                                       *)
(***************************************************************************)
AfterAdjust == last.op = "adjustFontSize"

\* The computed font size of an element before the widget wrote anything.
OriginalSize(el) == computedFontSize(el, fontAuthor, [e \in Elements |-> NoValue])

\* clamp(base * multiply, 8, 72) in hundredths of a pixel.
Clamped(base, multiply) ==
    LET product == (base * multiply) \div 10
    IN  IF product < 800 THEN 800 ELSE IF product > 7200 THEN 7200 ELSE product

\* C9: adjustFontSize does not compound: after a call with multiplier m every
\* eligible element has the size clamp(s * m, 8, 72), s being its original
\* computed size, whatever calls came before.
C9_NonCompounding ==
    AfterAdjust =>
        \A el \in Elements :
            ElEligible(el) => fontInline[el] = Clamped(OriginalSize(el), last.mul)

\* C10: every font size written by adjustFontSize lies in [8, 72] px and is
\* clamp(base * multiply, 8, 72), base being the element's cached original
\* size and multiply the multiplier of the latest call.
C10_Clamped ==
    \A el \in Elements :
        fontInline[el] # NoValue =>
            /\ fontInline[el] >= 800 /\ fontInline[el] <= 7200
            /\ AfterAdjust => fontInline[el] = Clamped(orgCache[el], last.mul)

C10_Witness ==
    /\ AfterAdjust /\ last.mul = 100
    /\ \E el \in Elements :
          /\ OriginalSize(el) = 1600
          /\ orgCache[el] = 1600
          /\ fontInline[el] = 7200

\* The font size an element is shown with now.
CurrentSize(el) == computedFontSize(el, fontAuthor, fontInline)

\* C11: adjustFontSize(1) restores the original size: every element that an
\* earlier call rescaled has, after a call with multiplier 1, the size it had
\* before the first adjustment.
C11_RestoreOriginal ==
    [][ (last'.op = "adjustFontSize" /\ last'.mul = 10) =>
            \A el \in Elements :
                fontInline[el] # NoValue => fontInline'[el] = OriginalSize(el) ]_vars

\* The elements the forEach callback returns early for.
Skipped(el) == ElIcon(el) \/ ElInWidget(el) \/ ElNoLayout(el) \/ ElBlank(el)

C19_CacheWrittenOnce ==
    [][ \A el \in Elements :
            orgCache[el] # NoValue => orgCache'[el] = orgCache[el] ]_vars

(***************************************************************************)
(* Properties of the CSS compiler.                                         *)
(***************************************************************************)
RECURSIVE JoinSpace(_)
JoinSpace(items) ==
    IF items = <<>> THEN <<>>
    ELSE IF Len(items) = 1 THEN items
    ELSE <<Head(items), " ">> \o JoinSpace(Tail(items))

\* The declarations C13 describes for a styles map.
RECURSIVE ExpectedDecls(_)
ExpectedDecls(styles) ==
    IF styles = <<>> THEN <<>>
    ELSE LET name  == Head(styles)[1]
             value == Head(styles)[2]
             tail  == ": " \o value \o " !important;"
         IN  (IF name = "filter"
              THEN << "-o-filter" \o tail, "-ms-filter" \o tail, "-moz-filter" \o tail,
                      "-webkit-filter" \o tail, "filter" \o tail >>
              ELSE << name \o tail >>)
             \o ExpectedDecls(Tail(styles))

\* C13: the declaration block of a styles map holds, for 'filter', five
\* declarations in the order -o-, -ms-, -moz-, -webkit-, unprefixed, and for
\* every other property one unprefixed declaration, each of the form
\* '<name>: <value> !important;', separated by single blanks.
C13_VendorPrefixes ==
    compiled.done => compiled.block = JoinSpace(ExpectedDecls(StylesOf(compIn)))

C13_Witness ==
    /\ compiled.done
    /\ StylesOf(compIn) = << <<"filter", "grayscale(100%)">>, <<"color", "#fff">> >>
    /\ compiled.block = << "-o-filter: grayscale(100%) !important;", " ",
                           "-ms-filter: grayscale(100%) !important;", " ",
                           "-moz-filter: grayscale(100%) !important;", " ",
                           "-webkit-filter: grayscale(100%) !important;", " ",
                           "filter: grayscale(100%) !important;", " ",
                           "color: #fff !important;" >>

HasSelector(config) == Has(config, "selector") /\ config.selector # ""
HasCss(config)      == Has(config, "css") /\ config.css # <<>>

\* The full selectors of the rule blocks of a compiled text, in order.
RECURSIVE RuleSelectorsFrom(_, _)
RuleSelectorsFrom(css, i) ==
    IF i + 2 > Len(css) THEN <<>>
    ELSE (IF css[i + 1] = " " /\ css[i + 2] = "{" THEN <<css[i]>> ELSE <<>>)
         \o RuleSelectorsFrom(css, i + 1)

RuleSelectors(css) == RuleSelectorsFrom(css, 1)

\* The entries C15 says the rules are made for.
ChildrenOrSelf(config) ==
    IF ~Has(config, "childrenSelector") \/ config.childrenSelector = <<>>
    THEN <<"">>
    ELSE config.childrenSelector

ExpectedSelectors(config) ==
    [i \in 1..Len(ChildrenOrSelf(config)) |->
        IF ChildrenOrSelf(config)[i] = "" THEN config.selector
        ELSE config.selector \o " " \o ChildrenOrSelf(config)[i]]

\* C15: for a config with a selector and non-empty styles the compiled text
\* has one rule block per entry of childrenSelector, in order, for
\* '<selector> <child>' or, for an empty entry, '<selector>'; a missing or
\* empty list gives one rule for '<selector>'.
C15_OneRulePerChild ==
    (compiled.done /\ compIn # NoConfig /\ HasSelector(compIn) /\ StylesOf(compIn) # <<>>) =>
        RuleSelectors(compiled.css) = ExpectedSelectors(compIn)

\* C16: a config without styles (missing or empty map) and without css,
\* or no config at all, compiles to the empty string.
C16_EmptyForNothing ==
    (compiled.done /\ NoStylesNoCss(compIn)) => compiled.css = <<>>

C16_Witness ==
    /\ compiled.done
    /\ compIn # NoConfig /\ HasSelector(compIn)
    /\ Has(compIn, "childrenSelector") /\ compIn.childrenSelector # <<>>
    /\ Has(compIn, "styles") /\ compIn.styles = <<>>
    /\ compiled.css = <<>>

\* What the compiler makes of the styles map before config.css is appended.
CompiledStyles(config) ==
    IF generateCSS(StylesOf(config)) = <<>> THEN <<>>
    ELSE IF HasSelector(config)
         THEN wrapCSSToSelector(config.selector,
                                IF Has(config, "childrenSelector")
                                THEN config.childrenSelector ELSE <<"">>,
                                generateCSS(StylesOf(config)))
         ELSE generateCSS(StylesOf(config))

NoBlankEnds(css) == css = <<>> \/ (Head(css) # " " /\ css[Len(css)] # " ")

\* C20: the compiled text is the scoped rules (styles and selector) or the
\* bare declaration block (styles, no selector); config.css, when present,
\* follows it after one blank; the text has no leading or trailing white
\* space.
C20_ThreeCases ==
    (compiled.done /\ compIn # NoConfig) =>
        /\ NoBlankEnds(compiled.css)
        /\ ~HasCss(compIn) => compiled.css = CompiledStyles(compIn)
        /\ (HasCss(compIn) /\ CompiledStyles(compIn) # <<>>) =>
               compiled.css = TrimRight(CompiledStyles(compIn) \o <<" ">> \o compIn.css)
        /\ (HasCss(compIn) /\ CompiledStyles(compIn) = <<>>) =>
               compiled.css = Trim(compIn.css)

C20_Witness ==
    /\ compiled.done /\ compIn # NoConfig
    /\ HasSelector(compIn) /\ StylesOf(compIn) = << <<"color", "#fff">> >>
    /\ Has(compIn, "childrenSelector") /\ compIn.childrenSelector = <<"body">>
    /\ HasCss(compIn) /\ compIn.css = <<"@font-face { }">>
    /\ compiled.css = << "html.asw-x body", " ", "{", " ", "color: #fff !important;",
                         " ", "}", " ", "@font-face { }" >>

(***************************************************************************)
(* Properties of one injectToolCSS call and of the host context.           *)
(***************************************************************************)
\* C17: within an enabling call on an id that already has a style element,
\* the old element is removed before the new one is inserted: no document
\* state during the call has two style elements of that id, and the call
\* ends in the last of these states.
C17_RemoveBeforeInsert ==
    [][ (last'.op = "injectToolCSS" /\ last'.enable = "true"
         /\ styleEls[ToolIdOf(last'.cfg)] # <<>>
         /\ generateCSSFromConfig(ToolConfigs[last'.cfg]) # <<>>) =>
            LET id    == ToolIdOf(last'.cfg)
                steps == addStylesheetSteps(styleEls,
                                            generateCSSFromConfig(ToolConfigs[last'.cfg]), id)
            IN  /\ \A i \in 1..Len(steps) : Len(steps[i][id]) <= 1
                /\ styleEls' = steps[Len(steps)] ]_vars

C17_Witness ==
    /\ AfterInject /\ LastEnabled
    /\ LastCSS # <<>>
    /\ last.before = <<LastCSS>>
    /\ Len(styleEls[LastToolId]) = 1

\* C18: a tool call made without a document fails with the error kind
\* 'no-document-context' and changes nothing.
C18_NoDocumentContext ==
    (~docCtx /\ last.op # "none") =>
        /\ last.err = "no-document-context"
        /\ \A id \in ResourceIds : styleEls[id] = <<>>
        /\ rootClasses = {}

(***************************************************************************)
(* Properties of the tools taken together.                                 *)
(***************************************************************************)
\* The configuration of the most recent injectToolCSS or readableFont call.
LastConfig == IF last.op = "readableFont" THEN readableFontConfig ELSE ToolConfigs[last.cfg]

\* 'asw-' followed by the id of a configuration.
MarkerClass(config) == "asw-" \o (IF Has(config, "id") THEN config.id ELSE "")

\* The rule selectors of a tool whose rules are scoped by its marker class.
ScopedSelectors(config) ==
    {IF config.childrenSelector[i] = ""
     THEN "html." \o MarkerClass(config)
     ELSE "html." \o MarkerClass(config) \o " " \o config.childrenSelector[i] :
        i \in 1..Len(config.childrenSelector)}

\* The selectors of the rule blocks of a style text.
RuleSelectorSet(css) ==
    {css[i] : i \in {j \in 1..(Len(css) - 2) : css[j + 1] = " " /\ css[j + 2] = "{"}}

\* C21: the style resource id and the root marker class of an enabling call
\* are the same string, 'asw-' followed by config.id; every Filter Registry
\* entry has its key as id and 'html.asw-<id>' as selector, as has the
\* readable-font config; so the rules injected for a registry tool are
\* scoped by the marker class the call sets.
C21_MarkerIsResource ==
    /\ \A k \in FilterKeys :
          /\ FILTERS[k].id = k
          /\ FILTERS[k].selector = "html.asw-" \o k
    /\ readableFontConfig.id = "readable-font"
    /\ readableFontConfig.selector = "html.asw-" \o readableFontConfig.id
    /\ (last.op \in {"injectToolCSS", "readableFont"} /\ last.err = "none"
        /\ last.enable = "true") =>
          /\ MarkerClass(LastConfig) \in rootClasses
          /\ generateCSSFromConfig(LastConfig) # <<>> =>
                /\ Len(styleEls[MarkerClass(LastConfig)]) = 1
                /\ (Has(LastConfig, "selector") /\ Has(LastConfig, "childrenSelector")) =>
                      RuleSelectorSet(styleEls[MarkerClass(LastConfig)][1])
                          = ScopedSelectors(LastConfig)

C21_Witness ==
    /\ last.op = "injectToolCSS" /\ last.cfg = "dark-contrast" /\ last.enable = "true"
    /\ "asw-dark-contrast" \in rootClasses
    /\ Len(styleEls["asw-dark-contrast"]) = 1
    /\ "html.asw-dark-contrast h1" \in RuleSelectorSet(styleEls["asw-dark-contrast"][1])

\* C22: after every adjustFontSize(m) call, on a page without an eligible
\* element too, the attribute aswFontMultiplier of the document root holds m,
\* the multiplier of the most recent call.
C22_MultiplierStored ==
    (AfterAdjust /\ last.err = "none") => fontMultiplier = last.mul

C22_Witness ==
    /\ AfterAdjust /\ last.mul = 20
    /\ fontAuthor \in BarePages
    /\ \A el \in Elements : fontInline[el] = NoValue /\ orgCache[el] = NoValue
    /\ fontMultiplier = 20

\* C23: after a readableFont call the class 'asw-readable-font' is on the
\* root and the style resource 'asw-readable-font' is present if and only if
\* the call had enable = true; a call without argument disables.
C23_ReadableFollowsLast ==
    (last.op = "readableFont" /\ last.err = "none") =>
        /\ ("asw-readable-font" \in rootClasses) <=> (last.enable = "true")
        /\ (styleEls["asw-readable-font"] # <<>>) <=> (last.enable = "true")

C23_Witness ==
    /\ last.op = "readableFont" /\ last.enable = "omitted"
    /\ last.before # <<>>
    /\ "asw-readable-font" \notin rootClasses
    /\ styleEls["asw-readable-font"] = <<>>

\* C24: a setToolActive call changes only the style resource and the marker
\* class named 'asw-<config.id>': the resources and marker classes of every
\* other id, the cached font sizes and the inline sizes stay as they were.
C24_OnlyOwnIdChanges ==
    [][ last'.op = "injectToolCSS" =>
            /\ \A id \in ResourceIds \ {ToolIdOf(last'.cfg)} : styleEls'[id] = styleEls[id]
            /\ rootClasses' \ {ToolIdOf(last'.cfg)} = rootClasses \ {ToolIdOf(last'.cfg)}
            /\ orgCache' = orgCache
            /\ fontInline' = fontInline
            /\ fontMultiplier' = fontMultiplier ]_vars

C24_Witness ==
    /\ last.op = "injectToolCSS" /\ last.cfg = "monochrome" /\ last.enable = "true"
    /\ styleEls["asw-monochrome"] # <<>>
    /\ "asw-readable-font" \in rootClasses
    /\ styleEls["asw-readable-font"] # <<>>
    /\ styleEls["asw-dark-contrast"] # <<>>
    /\ orgCache[1] # NoValue

(***************************************************************************)
(* Properties of the services.                                             *)
(***************************************************************************)
\* Call i of the log was accepted and came after the reset time of every
\* window an earlier call of its key opened: it opens a window.
RECURSIVE OpensWindow(_, _, _)
OpensWindow(log, i, windowMs) ==
    /\ log[i].ok
    /\ \A j \in 1..(i - 1) :
          (log[j].key = log[i].key /\ OpensWindow(log, j, windowMs)) =>
              log[i].now > log[j].now + windowMs

\* The accepted calls of the key of call i up to the reset time of its window.
AcceptedInWindow(log, i, windowMs) ==
    Cardinality({j \in i..Len(log) :
                    /\ log[j].key = log[i].key
                    /\ log[j].ok
                    /\ log[j].now <= log[i].now + windowMs})

\* C25: for every client key and every window opened by an accepted request,
\* at most maxRequests calls return true up to the window's reset time; a
\* refused call leaves the counts as they were; the first call after the
\* reset time returns true and opens a window with count 1; a call changes
\* the entry of no other key.
C25_RateLimit ==
    LET config == securityManager.config
        counts == securityManager.requestCounts
    IN  /\ \A i \in 1..Len(ret.log) :
              OpensWindow(ret.log, i, config.windowMs) =>
                  AcceptedInWindow(ret.log, i, config.windowMs) <= config.maxRequests
        /\ ret.op = "validateRequest" =>
              /\ ret.result = "false" => counts = ret.before
              /\ (ret.arg \in DOMAIN ret.before /\ ret.now > ret.before[ret.arg].resetTime) =>
                    /\ ret.result = "true"
                    /\ counts[ret.arg] = [count |-> 1, resetTime |-> ret.now + config.windowMs]
              /\ \A k \in DOMAIN ret.before \ {ret.arg} :
                    k \in DOMAIN counts /\ counts[k] = ret.before[k]

\* C26: the widget is created at most once per page load: sienna(...) is
\* called and assigned to window.SiennaPlugin no more than once, and a
\* fallback never replaces a widget that initialize() created.
C26_WidgetCreatedOnce ==
    /\ boot.siennaCalls <= 1
    /\ ~boot.replaced

\* A token is held: it was loaded by the constructor or saved by a
\* successful login, and the session was not cleared since.
TokenHeld == ret.log # <<>> /\ ret.log[1] \in {"loaded", "saved"}

\* C27: when logout() has completed, sent or not and whatever the request's
\* outcome, the session token is null, the stored 'adasure_session_token'
\* and 'adasure_api_key' are removed and isAuthenticated() is false; and
\* isAuthenticated() is true exactly when a token is held.
C27_LogoutClears ==
    /\ ret.op = "logout" =>
          /\ cloudflareAuth.sessionToken = Null
          /\ "adasure_session_token" \notin DOMAIN storage
          /\ "adasure_api_key" \notin DOMAIN storage
          /\ ~isAuthenticated(cloudflareAuth)
    /\ isAuthenticated(cloudflareAuth) <=> TokenHeld

C27_Witness ==
    /\ ret.op = "logout" /\ ret.arg = "network"
    /\ ret.before.token = "t2" /\ ret.before.stored = "t2" /\ ret.before.apiKey = "key"
    /\ cloudflareAuth.sessionToken = Null
    /\ storage = EmptyMap

\* The index of the first call that tracked `name` with enabled = true.
FirstEnabled(log, name) ==
    CHOOSE i \in 1..Len(log) :
        /\ log[i].name = name /\ log[i].enabled
        /\ \A j \in 1..(i - 1) : ~(log[j].name = name /\ log[j].enabled)

\* C28: featuresUsed holds each name at most once, holds exactly the names
\* tracked with enabled = true, in the order of their first use, is left as
\* it was by a call with enabled = false, and complianceScore is at most 100.
C28_FeaturesUsedOnce ==
    LET used == compliance.featuresUsed
    IN  /\ \A i, j \in 1..Len(used) : i # j => used[i] # used[j]
        /\ {used[i] : i \in 1..Len(used)}
              = {ret.log[j].name : j \in {x \in 1..Len(ret.log) : ret.log[x].enabled}}
        /\ \A i, j \in 1..Len(used) :
              i < j => FirstEnabled(ret.log, used[i]) < FirstEnabled(ret.log, used[j])
        /\ (ret.op = "trackFeatureUsage" /\ ret.result = "false") => used = ret.before
        /\ compliance.complianceScore <= 100

C28_Witness ==
    /\ ret.op = "trackFeatureUsage" /\ ret.arg = "contrast" /\ ret.result = "true"
    /\ ret.log = << [name |-> "font-size", enabled |-> TRUE],
                    [name |-> "contrast", enabled |-> FALSE],
                    [name |-> "font-size", enabled |-> TRUE],
                    [name |-> "contrast", enabled |-> TRUE] >>
    /\ compliance.featuresUsed = <<"font-size", "contrast">>
    /\ compliance.complianceScore = 100

\* C29: after a logSecurityEvent call the stored log holds at most 100
\* events: the newest 100 of all events that arrived, in arrival order.
C29_LogCapped ==
    LET stored  == StoredEvents(storage)
        arrived == ret.log
    IN  (ret.op = "error" /\ ret.result = "logged") =>
            /\ Len(stored) <= 100
            /\ Len(stored) = Min(100, Len(arrived))
            /\ \A i \in 1..Len(stored) :
                  stored[i] = arrived[Len(arrived) - Len(stored) + i]

C29_Witness ==
    /\ ret.op = "error" /\ ret.result = "logged"
    /\ Len(ret.before) = 100
    /\ Len(StoredEvents(storage)) = 100
    /\ StoredEvents(storage)[100].timestamp = ret.now
    /\ StoredEvents(storage)[1] = ret.before[2]

\* C30: a getAccessToken call made while a token is cached and the time is
\* before tokenExpiry sends no token request and returns the cached token;
\* tokenExpiry is expires_in seconds after the response minus 60 s; a failed
\* token request leaves token and expiry as they were and raises the error.
C30_TokenReused ==
    /\ (ret.op = "getAccessToken" /\ ~Falsy(ret.before.sp.accessToken)
        /\ ret.now < ret.before.sp.tokenExpiry) =>
          /\ ret.arg = "cached"
          /\ ret.result = ret.before.sp.accessToken
          /\ sendPulse = ret.before.sp
    /\ (ret.op = "tokenResponse" /\ ret.arg = "ok") =>
          /\ sendPulse.accessToken = ret.result
          /\ sendPulse.tokenExpiry = ret.now + ret.before.expiresIn * 1000 - 60000
    /\ (ret.op = "tokenResponse" /\ ret.arg = "error") =>
          /\ ret.result = "error"
          /\ sendPulse.accessToken = ret.before.sp.accessToken
          /\ sendPulse.tokenExpiry = ret.before.sp.tokenExpiry

C30_Witness ==
    /\ ret.op = "getAccessToken" /\ ret.arg = "cached" /\ ret.result = "tk1"
    /\ ret.now = 30000
    /\ sendPulse.accessToken = "tk1" /\ sendPulse.tokenExpiry = 60000
    /\ sendPulse.sent = 1 /\ sendPulse.pending = 0

====
